---------------------------- MODULE Spec2Model ----------------------------
(***************************************************************************)
(* Model of the warg browser remote-control server:                        *)
(*   src/src/browser.ts  BrowserManager (session manager)                  *)
(*   src/src/server.ts   WargServer (HTTP routes, WebSocket handlers,      *)
(*                       client registry and broadcast)                    *)
(*                                                                         *)
(* Node runs one task at a time; a handler runs synchronously up to its    *)
(* next `await` of a driver (puppeteer) promise.  Every action below is    *)
(* one such run: from the arrival of a request, or from the settlement of  *)
(* the awaited driver promise, up to the next suspension or to the end of  *)
(* the handler.  The driver is opaque: each of its operations settles      *)
(* later, either fulfilled or rejected.                                    *)
(***************************************************************************)
EXTENDS Integers, Sequences, FiniteSets, TLC

\* ------------------------------------------------------------------ bounds
\* requests received in the session-manager specification SpecMgr
MaxReq == 3
\* requests received in the server specification Spec
MaxSrvReq == 2
\* WebSocket connections accepted
NumClients == 2

Reqs == 1..(IF MaxReq > MaxSrvReq THEN MaxReq ELSE MaxSrvReq)
Clients == 1..NumClients
\* null for handles, and "no WebSocket" for HTTP requests
Null == 0

\* ------------------------------------------------------------- vocabulary
CommandTypes ==
  {"navigate", "click", "type", "screenshot", "evaluate", "reload", "back", "forward"}

\* message.data of a WebSocket 'command' message that carries no data field
NoCmd == [type |-> "<absent>", hasData |-> FALSE]

\* the command envelopes the model feeds to the handlers
CommandInputs ==
  { NoCmd,
    [type |-> "navigate", hasData |-> TRUE],
    [type |-> "navigate", hasData |-> FALSE],
    [type |-> "click", hasData |-> TRUE],
    [type |-> "screenshot", hasData |-> FALSE],
    [type |-> "teleport", hasData |-> FALSE] }

\* the envelopes fed to the handlers in the server specification Spec; SpecMgr
\* feeds all of CommandInputs to executeCommand
SrvCommandInputs ==
  { NoCmd,
    [type |-> "navigate", hasData |-> TRUE],
    [type |-> "teleport", hasData |-> FALSE] }

\* the id of an inbound message that carries none
NoId == "<absent>"
\* the ids the model puts on inbound WebSocket messages
IdInputs == {NoId, "id-a"}

\* ws_unknown: a message whose type is no case of handleWebSocketMessage;
\* ws_invalid: a frame that JSON.parse or the read of message.type rejects
WsKinds == {"ws_start", "ws_stop", "ws_command", "ws_status", "ws_unknown", "ws_invalid"}
HttpKinds == {"http_start", "http_stop", "http_restart", "http_command"}

\* a BrowserResponse; urlOf is the page whose url() a data.url was read from
NoResult == [success |-> FALSE, data |-> "none", error |-> "none", urlOf |-> Null]
NotReadyResult == [NoResult EXCEPT !.error = "NotReady"]
UnknownResult == [NoResult EXCEPT !.error = "Unknown"]
\* a failed result that still carries data
FailedResult_withData == [NoResult EXCEPT !.data = "url", !.error = "Error"]

FailedResult == [NoResult EXCEPT !.error = "Driver"]
OkResult(d) == [success |-> TRUE, data |-> d, error |-> "none", urlOf |-> Null]

\* { success: true, data: { url: this.page.url() } }, with this.page as it is
\* once the awaited operation has settled
UrlResult(m) == [OkResult("url") EXCEPT !.urlOf = m.page]

VARIABLES
  browser,           \* BrowserManager.browser: Null or the handle launched by a request
  page,              \* BrowserManager.page: Null or the handle created by a request
  isInitializing,    \* BrowserManager.isInitializing
  connectedClients,  \* WargServer.connectedClients
  readyState,        \* readyState of each WebSocket: "NONE", "OPEN", "CLOSED"
  inbox,             \* messages delivered to each WebSocket, in order
  tasks,             \* the handler invocation of each request
  nReq,              \* number of requests received so far
  closedB,           \* browser handles whose close has completed in the driver
  closedP,           \* page handles whose close has completed in the driver
  ev,                \* the manager calls made or resumed by the last step
  srv,               \* WargServer.stop(): where the call is, and the HTTP listener
  client,            \* a WargClient of the web page (public/app.js)
  daemon             \* the WargDaemon process and what it supervises

vars == <<browser, page, isInitializing, connectedClients, readyState, inbox,
          tasks, nReq, closedB, closedP, ev, srv, client, daemon>>

\* the server, its manager and its observers
serverVars == <<browser, page, isInitializing, connectedClients, readyState, inbox,
                tasks, nReq, closedB, closedP, ev>>

IdleTask ==
  [kind |-> "none", ws |-> Null, cmd |-> NoCmd, id |-> NoId, pc |-> "idle", h |-> Null,
   out |-> "none", result |-> NoResult, joined |-> Null, live |-> {}]

\* the manager's three fields as one value
Mgr == [browser |-> browser, page |-> page, isInitializing |-> isInitializing]

\* BrowserManager.isInitialized()
isInitializedOf(m) == m.browser # Null /\ m.page # Null
isInitialized == isInitializedOf(Mgr)


\* ------------------------------------------------ BrowserManager (browser.ts)
\* One synchronous run of a manager method: the manager fields it leaves (m),
\* where it suspends (pc, "ret" when the method has settled), how it settled
\* (out: "pending", "ok", "throw", "result"), the command result, and the
\* driver operation it invoked with the handle it was invoked on.
Step(m, pc, out, result, call, h) ==
  [m |-> m, pc |-> pc, out |-> out, result |-> result, call |-> call, h |-> h]

Return(m, out) == Step(m, "ret", out, NoResult, "none", Null)
ReturnResult(m, r) == Step(m, "ret", "result", r, "none", Null)
Suspend(m, pc, call, h) == Step(m, pc, "pending", NoResult, call, h)

\* initialize() without the isInitializing guard
initialize_enter_noFlagGuard(m, t) ==
  IF m.browser # Null THEN Return(m, "ok")
  ELSE Suspend([m EXCEPT !.isInitializing = TRUE], "launch", "launch", Null)

\* initialize() without the `if (this.browser)` guard
initialize_enter_noBrowserGuard(m, t) ==
  IF m.isInitializing THEN Return(m, "ok")
  ELSE Suspend([m EXCEPT !.isInitializing = TRUE], "launch", "launch", Null)

\* initialize(), from entry to the await of puppeteer.launch
initialize_enter(m, t) ==
  IF m.isInitializing THEN Return(m, "ok")
  ELSE IF m.browser # Null THEN Return(m, "ok")
  ELSE Suspend([m EXCEPT !.isInitializing = TRUE], "launch", "launch", Null)

\* initialize() whose catch block forgets `this.browser = null`
initialize_catch_keepsBrowser(m) ==
  Return([m EXCEPT !.page = Null, !.isInitializing = FALSE], "throw")

\* initialize() whose catch block does not rethrow
initialize_catch_swallows(m) ==
  Return([browser |-> Null, page |-> Null, isInitializing |-> FALSE], "ok")

\* initialize() without its finally block
initialize_catch_keepsFlag(m) ==
  Return([m EXCEPT !.browser = Null, !.page = Null], "throw")

\* initialize(), catch and finally blocks
initialize_catch(m) ==
  Return([browser |-> Null, page |-> Null, isInitializing |-> FALSE], "throw")

\* initialize(), from the settlement of launch to the await of newPage
initialize_afterLaunch(m, t, ok) ==
  IF ok THEN Suspend([m EXCEPT !.browser = t], "newPage", "newPage", t)
  ELSE initialize_catch(m)

\* initialize(), from the settlement of newPage to the await of setViewport
initialize_afterNewPage(m, t, ok) ==
  IF ok THEN Suspend([m EXCEPT !.page = t], "setViewport", "setViewport", t)
  ELSE initialize_catch(m)

\* initialize(), from the settlement of setViewport to the end; this.page.on
\* dereferences this.page again, which a close() may have set to null
initialize_afterSetViewport(m, t, ok) ==
  IF ok /\ m.page # Null THEN Return([m EXCEPT !.isInitializing = FALSE], "ok")
  ELSE initialize_catch(m)

\* close() that calls this.browser.close() without the `if (this.browser)` guard
close_browserPart_noGuard(m) ==
  Suspend(m, "browserClose", "browser.close", m.browser)

\* close(), the browser part: `if (this.browser) { await this.browser.close()`
close_browserPart(m) ==
  IF m.browser # Null THEN Suspend(m, "browserClose", "browser.close", m.browser)
  ELSE Return(m, "ok")

\* close() that goes to the browser without closing the page
close_enter_skipsPage(m) == close_browserPart(m)

\* close(), from entry to the first await
close_enter(m) ==
  IF m.page # Null THEN Suspend(m, "pageClose", "page.close", m.page)
  ELSE close_browserPart(m)

\* close(), from the settlement of page.close() on
close_afterPageClose(m, ok) ==
  IF ok THEN close_browserPart([m EXCEPT !.page = Null])
  ELSE Return(m, "throw")

\* close(), from the settlement of browser.close() on
close_afterBrowserClose(m, ok) ==
  IF ok THEN Return([m EXCEPT !.browser = Null], "ok")
  ELSE Return(m, "throw")

NeedsData == {"navigate", "click", "type", "evaluate"}
ReturnsUrl == {"navigate", "reload", "back", "forward"}

\* executeCommand() whose switch has no default case: an unknown type is
\* forwarded to the page like a known one
executeCommand_enter_unknownForwarded(m, cmd) ==
  IF m.page = Null THEN ReturnResult(m, NotReadyResult)
  ELSE IF cmd = NoCmd THEN Return(m, "throw")
  ELSE IF cmd.type \in NeedsData /\ ~cmd.hasData
         THEN ReturnResult(m, [FailedResult EXCEPT !.error = "TypeError"])
  ELSE Suspend(m, "cmdOp", cmd.type, m.page)

\* executeCommand(), from entry to the await of the page operation
executeCommand_enter(m, cmd) ==
  IF m.page = Null THEN ReturnResult(m, NotReadyResult)
  ELSE IF cmd = NoCmd THEN Return(m, "throw")
  ELSE IF cmd.type \in NeedsData /\ ~cmd.hasData
         THEN ReturnResult(m, [FailedResult EXCEPT !.error = "TypeError"])
  ELSE IF cmd.type \in CommandTypes THEN Suspend(m, "cmdOp", cmd.type, m.page)
  ELSE ReturnResult(m, UnknownResult)

\* executeCommand() without its try/catch: a rejected page operation rejects
\* the call
executeCommand_afterOp_rethrows(m, cmd, ok) ==
  IF ~ok THEN Return(m, "throw")
  ELSE IF cmd.type \in ReturnsUrl
         THEN IF m.page = Null THEN Return(m, "throw")
                ELSE ReturnResult(m, UrlResult(m))
  ELSE IF cmd.type = "screenshot" THEN ReturnResult(m, OkResult("screenshot"))
  ELSE IF cmd.type = "evaluate" THEN ReturnResult(m, OkResult("result"))
  ELSE ReturnResult(m, OkResult("none"))

\* executeCommand(), from the settlement of the page operation on
executeCommand_afterOp(m, cmd, ok) ==
  IF ~ok THEN ReturnResult(m, FailedResult)
  ELSE IF cmd.type \in ReturnsUrl
         THEN IF m.page = Null
                THEN ReturnResult(m, [FailedResult EXCEPT !.error = "TypeError"])
                ELSE ReturnResult(m, UrlResult(m))
  ELSE IF cmd.type = "screenshot" THEN ReturnResult(m, OkResult("screenshot"))
  ELSE IF cmd.type = "evaluate" THEN ReturnResult(m, OkResult("result"))
  ELSE ReturnResult(m, OkResult("none"))

\* getPageInfo(), from entry to the await of page.title(); settles with out
\* "info" for { title, url } and "null" for null
getPageInfo_enter(m) ==
  IF m.page = Null THEN Return(m, "null")
  ELSE Suspend(m, "title", "title", m.page)

\* getPageInfo(), from the settlement of page.title() on
getPageInfo_afterTitle(m, ok) ==
  IF ok THEN Return(m, "info") ELSE Return(m, "null")

InitPcs == {"launch", "newPage", "setViewport"}
ClosePcs == {"pageClose", "browserClose"}

\* The lifecycle state of the spec, read off the manager: Closing while a close()
\* awaits a release call, Initializing while the flag is set, Ready when
\* isInitialized(), Uninitialized otherwise.
SessionStateOf(m, closing) ==
  IF closing THEN "Closing"
  ELSE IF m.isInitializing THEN "Initializing"
  ELSE IF isInitializedOf(m) THEN "Ready"
  ELSE "Uninitialized"

\* what one manager call did in one step: whether the step entered the method
\* or resumed it on a driver promise that was "fulfilled" or "rejected"
\* (settled), the fields before it ran (pre) and after (post), the lifecycle
\* state before and after, the driver operation it invoked and how it settled;
\* awaited is the handle of the driver operation whose settlement resumed it
Ev(t, fn, entered, settled, awaited, pre, s, st0, st1) ==
  [t |-> t, fn |-> fn, entered |-> entered, settled |-> settled, awaited |-> awaited,
   pre |-> pre,
   post |-> s.m,
   st0 |-> st0, st1 |-> st1,
   call |-> s.call, h |-> s.h, ret |-> s.out, result |-> s.result]

\* --------------------------------------------------- WargServer (server.ts)
\* a message on the wire: its type, its id, the status fields (meaningful
\* in a status message only), and, for the claims, the request it answers or
\* announces and whether it is the direct response to that request
Msg(type, t, direct) ==
  [type |-> type, req |-> t, direct |-> direct, id |-> NoId,
   initialized |-> FALSE, pageInfo |-> FALSE, clients |-> 0]

\* a reply that leaves the id of the inbound message out
Reply_noId(rec, t, type) == Msg(type, t, TRUE)

\* a direct response of handleWebSocketMessage: `id: message.id`
Reply(rec, t, type) == [Msg(type, t, TRUE) EXCEPT !.id = rec.id]

\* the status response to get_status
StatusReply(rec, t, m, info) ==
  [Reply(rec, t, "status") EXCEPT !.initialized = isInitializedOf(m),
                                  !.pageInfo = info,
                                  !.clients = Cardinality(connectedClients)]

\* a status snapshot that counts the registry as it was before the add
StatusSnapshot_beforeAdd(registry) ==
  [Msg("status", Null, FALSE) EXCEPT !.initialized = isInitialized,
                                     !.clients = Cardinality(connectedClients)]

\* the status snapshot sent on connection, with the registry as it then is
StatusSnapshot(registry) ==
  [Msg("status", Null, FALSE) EXCEPT !.initialized = isInitialized,
                                     !.clients = Cardinality(registry)]

\* ws.send: a socket that is no longer open drops the message
Send(ib, c, msg) ==
  IF readyState[c] = "OPEN" THEN [ib EXCEPT ![c] = Append(@, msg)] ELSE ib

\* broadcastToClients that ignores its exclude argument
broadcastToClients_noExclude(ib, msg, exclude) ==
  [c \in Clients |-> IF c \in connectedClients /\ readyState[c] = "OPEN"
                       THEN Append(ib[c], msg) ELSE ib[c]]

\* an audience chosen without looking at readyState
Audience_noOpenCheck(exclude) == {c \in connectedClients : c # exclude}

\* the observers broadcastToClients(message, exclude) sends to
Audience(exclude) ==
  {c \in connectedClients : c # exclude /\ readyState[c] = "OPEN"}

\* a broadcast whose loop stops after the first observer it sends to
broadcastToClients_firstOnly(ib, msg, exclude) ==
  [c \in Clients |->
     IF c \in Audience(exclude) /\ \A d \in Audience(exclude) : c <= d
       THEN Append(ib[c], msg) ELSE ib[c]]

\* a broadcast that is skipped when the excluded sender is no longer open
broadcastToClients_onlyIfSenderOpen(ib, msg, exclude) ==
  [c \in Clients |->
     IF c \in Audience(exclude) /\ (exclude = Null \/ readyState[exclude] = "OPEN")
       THEN Append(ib[c], msg) ELSE ib[c]]

\* broadcastToClients(message, exclude)
broadcastToClients(ib, msg, exclude) ==
  [c \in Clients |-> IF c \in Audience(exclude) THEN Append(ib[c], msg) ELSE ib[c]]

\* a route that answers 500 and then broadcasts all the same
HttpOutputs_alwaysBroadcast(kind, out) ==
  IF (kind = "http_command" /\ out = "result") \/ (kind # "http_command" /\ out = "ok")
    THEN <<"res.json", "broadcast">>
    ELSE <<"res.status(500)", "broadcast">>

\* what an HTTP route does, in order, once its manager calls have settled with
\* out: the try block writes the response and then broadcasts, the catch block
\* writes the 500 response only
HttpOutputs(kind, out) ==
  IF (kind = "http_command" /\ out = "result") \/ (kind # "http_command" /\ out = "ok")
    THEN <<"res.json", "broadcast">>
    ELSE <<"res.status(500)">>

\* the type of the message a route broadcasts
HttpNotice(kind) ==
  CASE kind = "http_start" -> "browser_started"
    [] kind = "http_stop" -> "browser_stopped"
    [] kind = "http_restart" -> "browser_restarted"
    [] kind = "http_command" -> "command_result"

\* the rest of a handler once its manager call has settled with s: the inbox
\* after the direct reply and the broadcast
Respond(rec, t, s) ==
  CASE rec.kind = "ws_start" ->
         IF s.out = "ok"
           THEN broadcastToClients(Send(inbox, rec.ws, Reply(rec, t, "browser_started")),
                                   Msg("browser_started", t, FALSE), rec.ws)
           ELSE Send(inbox, rec.ws, Reply(rec, t, "error"))
    [] rec.kind = "ws_stop" ->
         IF s.out = "ok"
           THEN broadcastToClients(Send(inbox, rec.ws, Reply(rec, t, "browser_stopped")),
                                   Msg("browser_stopped", t, FALSE), rec.ws)
           ELSE Send(inbox, rec.ws, Reply(rec, t, "error"))
    [] rec.kind = "ws_command" ->
         IF s.out = "result"
           THEN LET sent == Send(inbox, rec.ws, Reply(rec, t, "command_result"))
                IN \* message.data.type throws when the message has no data
                   IF rec.cmd = NoCmd
                     THEN Send(sent, rec.ws, Reply(rec, t, "error"))
                     ELSE broadcastToClients(sent, Msg("command_executed", t, FALSE), rec.ws)
           ELSE Send(inbox, rec.ws, Reply(rec, t, "error"))
    [] rec.kind = "ws_status" ->
         Send(inbox, rec.ws, StatusReply(rec, t, s.m, s.out = "info"))
    [] rec.kind = "ws_unknown" ->
         Send(inbox, rec.ws, Reply(rec, t, "error"))
    [] rec.kind = "ws_invalid" ->
         \* the catch of ws.on('message') knows no id
         Send(inbox, rec.ws, Msg("error", t, TRUE))
    [] rec.kind \in HttpKinds ->
         IF \E k \in DOMAIN HttpOutputs(rec.kind, s.out) :
              HttpOutputs(rec.kind, s.out)[k] = "broadcast"
           THEN broadcastToClients(inbox, Msg(HttpNotice(rec.kind), t, FALSE), Null)
           ELSE inbox

\* the observers that are registered and open
Live == {c \in connectedClients : readyState[c] = "OPEN"}

\* A handler runs on from the manager step s of method fn: /api/browser/restart
\* goes on from a settled close() into initialize(); a suspended call parks the
\* handler, a settled one lets it answer and finish.
Run(t, rec, fn, entered, settled, s) ==
  LET chain == rec.kind = "http_restart" /\ fn = "close" /\ s.out = "ok"
      s2 == initialize_enter(s.m, t)
      last == IF chain THEN s2 ELSE s
      othersClosing == \E u \in Reqs \ {t} : tasks[u].pc \in ClosePcs
      st0 == SessionStateOf(Mgr, othersClosing \/ rec.pc \in ClosePcs)
      st1 == SessionStateOf(s.m, othersClosing \/ s.pc \in ClosePcs)
      st2 == SessionStateOf(s2.m, othersClosing)
      first == Ev(t, fn, entered, settled, rec.h, Mgr, s, st0, st1)
      \* the initialize() in flight that an initialize() returning at the flag found
      inFlight == {u \in Reqs \ {t} : tasks[u].pc \in InitPcs}
      joins == last.pc = "ret" /\ last.out = "ok" /\ inFlight # {}
               /\ (IF chain THEN TRUE ELSE fn = "initialize" /\ entered)
      joined == IF joins THEN CHOOSE u \in inFlight : TRUE ELSE Null
  IN /\ browser' = last.m.browser
     /\ page' = last.m.page
     /\ isInitializing' = last.m.isInitializing
     /\ ev' = IF chain THEN <<first, Ev(t, "initialize", TRUE, "none", Null, s.m, s2, st1, st2)>>
                       ELSE <<first>>
     /\ UNCHANGED <<srv, client, daemon>>
     /\ IF last.pc # "ret"
          THEN /\ tasks' = [tasks EXCEPT ![t] = [rec EXCEPT !.pc = last.pc, !.h = last.h]]
               /\ inbox' = inbox
          ELSE /\ tasks' = [tasks EXCEPT ![t] =
                              [rec EXCEPT !.pc = "done", !.h = Null, !.out = last.out,
                                          !.result = last.result,
                                          !.joined = joined, !.live = Live]]
               /\ inbox' = Respond(rec, t, last)

\* the manager method a handler calls first
Enter(kind, cmd, t) ==
  CASE kind \in {"ws_start", "http_start"} -> initialize_enter(Mgr, t)
    [] kind \in {"ws_stop", "http_stop", "http_restart"} -> close_enter(Mgr)
    [] kind \in {"ws_command", "http_command"} -> executeCommand_enter(Mgr, cmd)
    [] kind = "ws_status" -> getPageInfo_enter(Mgr)
    [] kind \in {"ws_unknown", "ws_invalid"} -> Return(Mgr, "ok")

FnOf(kind) ==
  CASE kind \in {"ws_start", "http_start"} -> "initialize"
    [] kind \in {"ws_stop", "http_stop", "http_restart"} -> "close"
    [] kind \in {"ws_command", "http_command"} -> "executeCommand"
    [] kind = "ws_status" -> "getPageInfo"
    [] kind \in {"ws_unknown", "ws_invalid"} -> "none"

NewTask(kind, ws, cmd, id) ==
  [IdleTask EXCEPT !.kind = kind, !.ws = ws, !.cmd = cmd, !.id = id]

\* ws.on('message'): a message of an open observer reaches handleWebSocketMessage
WsMessage(c, kind, cmd, id) ==
  /\ nReq < MaxSrvReq
  /\ c \in connectedClients
  /\ readyState[c] = "OPEN"
  /\ kind = "ws_command" \/ cmd = NoCmd
  /\ kind = "ws_invalid" => id = NoId
  /\ nReq' = nReq + 1
  /\ Run(nReq + 1, NewTask(kind, c, cmd, id), FnOf(kind), TRUE, "none",
         Enter(kind, cmd, nReq + 1))
  /\ UNCHANGED <<connectedClients, readyState, closedB, closedP>>

\* an HTTP request reaches its route; express.json() always yields an object body
HttpRequest(kind, cmd, max) ==
  /\ nReq < max
  /\ IF kind = "http_command" THEN cmd # NoCmd ELSE cmd = NoCmd
  /\ nReq' = nReq + 1
  /\ Run(nReq + 1, NewTask(kind, Null, cmd, NoId), FnOf(kind), TRUE, "none",
         Enter(kind, cmd, nReq + 1))
  /\ UNCHANGED <<connectedClients, readyState, closedB, closedP>>

\* ------------------------------------------------------- driver settlements
\* a handle is dead once its close, or its browser's close, has completed; the
\* page a request created lives in the browser the same request launched
DeadB(b) == b \in closedB
DeadP(p) == p \in closedP \/ p \in closedB

Resume(t, fn, ok, s) ==
  /\ Run(t, tasks[t], fn, FALSE, IF ok THEN "fulfilled" ELSE "rejected", s)
  /\ UNCHANGED <<connectedClients, readyState, nReq>>

LaunchSettles(t, ok) ==
  /\ tasks[t].pc = "launch"
  /\ Resume(t, "initialize", ok, initialize_afterLaunch(Mgr, t, ok))
  /\ UNCHANGED <<closedB, closedP>>

NewPageSettles(t, ok) ==
  /\ tasks[t].pc = "newPage"
  /\ DeadB(tasks[t].h) => ~ok
  /\ Resume(t, "initialize", ok, initialize_afterNewPage(Mgr, t, ok))
  /\ UNCHANGED <<closedB, closedP>>

SetViewportSettles(t, ok) ==
  /\ tasks[t].pc = "setViewport"
  /\ DeadP(tasks[t].h) => ~ok
  /\ Resume(t, "initialize", ok, initialize_afterSetViewport(Mgr, t, ok))
  /\ UNCHANGED <<closedB, closedP>>

PageCloseSettles(t, ok) ==
  /\ tasks[t].pc = "pageClose"
  /\ closedP' = IF ok THEN closedP \cup {tasks[t].h} ELSE closedP
  /\ Resume(t, "close", ok, close_afterPageClose(Mgr, ok))
  /\ UNCHANGED closedB

BrowserCloseSettles(t, ok) ==
  /\ tasks[t].pc = "browserClose"
  /\ closedB' = IF ok THEN closedB \cup {tasks[t].h} ELSE closedB
  /\ Resume(t, "close", ok, close_afterBrowserClose(Mgr, ok))
  /\ UNCHANGED closedP

CommandSettles(t, ok) ==
  /\ tasks[t].pc = "cmdOp"
  /\ DeadP(tasks[t].h) => ~ok
  /\ Resume(t, "executeCommand", ok, executeCommand_afterOp(Mgr, tasks[t].cmd, ok))
  /\ UNCHANGED <<closedB, closedP>>

TitleSettles(t, ok) ==
  /\ tasks[t].pc = "title"
  /\ DeadP(tasks[t].h) => ~ok
  /\ Resume(t, "getPageInfo", ok, getPageInfo_afterTitle(Mgr, ok))
  /\ UNCHANGED <<closedB, closedP>>

\* ------------------------------------------------------------ the observers
\* wss.on('connection'): register the observer and send it the status snapshot
Connect(c) ==
  /\ srv.listening
  /\ readyState[c] = "NONE"
  /\ readyState' = [readyState EXCEPT ![c] = "OPEN"]
  /\ connectedClients' = connectedClients \cup {c}
  /\ inbox' = [inbox EXCEPT ![c] = Append(@, StatusSnapshot(connectedClients \cup {c}))]
  /\ ev' = <<Ev(c, "connect", TRUE, "none", Null, Mgr, Return(Mgr, "ok"),
                SessionStateOf(Mgr, \E u \in Reqs : tasks[u].pc \in ClosePcs),
                SessionStateOf(Mgr, \E u \in Reqs : tasks[u].pc \in ClosePcs))>>
  /\ UNCHANGED <<browser, page, isInitializing, tasks, nReq, closedB, closedP>>
  /\ UNCHANGED <<srv, client, daemon>>

\* the transport loses a connection: the socket stops being open
Disconnect(c) ==
  /\ readyState[c] = "OPEN"
  /\ readyState' = [readyState EXCEPT ![c] = "CLOSED"]
  /\ ev' = <<>>
  /\ UNCHANGED <<browser, page, isInitializing, connectedClients, inbox, tasks, nReq,
                 closedB, closedP>>
  /\ UNCHANGED <<srv, client, daemon>>

\* ws.on('close'): unregister the observer
OnClose(c) ==
  /\ readyState[c] = "CLOSED"
  /\ c \in connectedClients
  /\ connectedClients' = connectedClients \ {c}
  /\ ev' = <<>>
  /\ UNCHANGED <<browser, page, isInitializing, readyState, inbox, tasks, nReq,
                 closedB, closedP>>
  /\ UNCHANGED <<srv, client, daemon>>

\* ------------------------------------------------------------ WargClient
maxReconnectAttempts == 5
InitialReconnectDelay == 1000
MaxReconnectDelay == 10000

\* reconnect timers one client sets in the reconnection specification SpecClient
MaxScheduled == 12

Min(a, b) == IF a < b THEN a ELSE b

\* the constructor, which ends in connect(): a socket is connecting.  timer is
\* the delay of the pending setTimeout (0: none); delays lists the delays of the
\* timers set so far and run counts those set since the socket last opened
NewClient ==
  [state |-> "connecting", reconnectAttempts |-> 0,
   reconnectDelay |-> InitialReconnectDelay, timer |-> 0, delays |-> <<>>, run |-> 0]

attemptReconnect_noLimit(cl) ==
  [cl EXCEPT !.state = "waiting",
             !.reconnectAttempts = @ + 1,
             !.timer = cl.reconnectDelay,
             !.reconnectDelay = Min(cl.reconnectDelay * 2, MaxReconnectDelay)]

attemptReconnect(cl) ==
  IF cl.reconnectAttempts < maxReconnectAttempts
    THEN [cl EXCEPT !.state = "waiting",
                    !.reconnectAttempts = @ + 1,
                    !.timer = cl.reconnectDelay,
                    !.reconnectDelay = Min(cl.reconnectDelay * 2, MaxReconnectDelay)]
    ELSE [cl EXCEPT !.state = "gaveUp"]

onopen(cl) == [cl EXCEPT !.state = "open", !.reconnectAttempts = 0]

\* ws.onopen
ClientOpens ==
  /\ client.state = "connecting"
  /\ client' = [onopen(client) EXCEPT !.run = 0]
  /\ UNCHANGED <<serverVars, srv, daemon>>

\* ws.onclose, of a socket that was open or that failed to connect
ClientCloses ==
  /\ client.state \in {"connecting", "open"}
  /\ LET n == attemptReconnect(client)
     IN /\ n.timer # 0 => Len(client.delays) < MaxScheduled
        /\ client' = IF n.timer # 0
                       THEN [n EXCEPT !.delays = Append(@, n.timer), !.run = @ + 1]
                       ELSE n
  /\ UNCHANGED <<serverVars, srv, daemon>>

\* the setTimeout callback of attemptReconnect: connect()
TimerFires ==
  /\ client.state = "waiting"
  /\ client' = [client EXCEPT !.state = "connecting", !.timer = 0]
  /\ UNCHANGED <<serverVars, srv, daemon>>

\* ------------------------------------------------------------ WargDaemon
\* server processes one daemon spawns in the supervision specification SpecDaemon
MaxSpawns == 3

\* the `code` of the child's exit event when a signal ended it (null)
NullCode == -1
ExitCodes == {0, 1, NullCode}

\* what start() can find in the PID file: nothing, text that is no number, the
\* PID of no process, of a running process this user may signal, or of a running
\* process of another user
PidFiles == {"absent", "garbage", "deadPid", "ownRunningPid", "foreignRunningPid"}

\* getPid: null without a file, else parseInt of its text
getPid(f) == IF f = "absent" THEN "null" ELSE IF f = "garbage" THEN "NaN" ELSE f

\* process.kill(pid, 0): returns for a process the caller may signal and throws
\* ESRCH for no process, EPERM for a process of another user
kill0(pid) ==
  CASE pid \in {"ownRunningPid", "self"} -> "ok"
    [] pid = "foreignRunningPid" -> "EPERM"
    [] OTHER -> "ESRCH"

isProcessRunning(pid) == kill0(pid) = "ok"

isRunning(f) ==
  LET pid == getPid(f)
  IN IF pid \notin {"null", "NaN"} THEN isProcessRunning(pid) ELSE FALSE

restartOnExit(code) == code # 0 /\ code # NullCode

\* the daemon before start(): found is what start() read from the PID file,
\* pidFile the file now, server the child (serverProcess), timer a pending
\* restart timer, waiting the caller of a startServer() in its 1 s wait,
\* exits the exit events handled so far
NewDaemon ==
  [pc |-> "new", found |-> "absent", pidFile |-> "absent", server |-> "none",
   timer |-> FALSE, waiting |-> "none", spawns |-> 0, exits |-> <<>>]

DaemonStep(d) ==
  /\ daemon' = d
  /\ UNCHANGED <<serverVars, srv, client>>

\* start(), up to the 1 s wait of startServer(); writeOk: fs.writeFile succeeds
DaemonStart(f, writeOk) ==
  /\ daemon.pc = "new"
  /\ DaemonStep(
       IF isRunning(f)
         THEN [daemon EXCEPT !.pc = "alreadyRunning", !.found = f, !.pidFile = f]
         ELSE IF ~writeOk
           THEN [daemon EXCEPT !.pc = "exited1", !.found = f, !.pidFile = f]
           ELSE [daemon EXCEPT !.pc = "starting", !.found = f, !.pidFile = "self",
                               !.server = "running", !.spawns = 1,
                               !.waiting = "start"])

\* the 1 s wait of startServer() ends.  Without a child it throws: start()
\* catches that and exits with 1; called from the restart timer nothing awaits
\* it, and the runtime either only warns or raises uncaughtException, whose
\* handler is shutdown()
StartupWaitEnds(raises) ==
  /\ daemon.waiting # "none"
  /\ daemon.pc \in {"starting", "supervising", "shutdownRejected"}
  /\ DaemonStep(
       IF daemon.server = "running"
         THEN [daemon EXCEPT !.waiting = "none",
                             !.pc = IF daemon.waiting = "start" THEN "supervising" ELSE @]
         ELSE IF daemon.waiting = "start"
           THEN [daemon EXCEPT !.waiting = "none", !.pc = "exited1", !.timer = FALSE]
           ELSE IF raises
             THEN [daemon EXCEPT !.waiting = "none", !.pc = "exited0",
                                 !.pidFile = "absent", !.timer = FALSE]
             ELSE [daemon EXCEPT !.waiting = "none"])

\* the child's exit event
ServerExits(code) ==
  /\ daemon.server = "running"
  /\ daemon.pc \in {"starting", "supervising", "shuttingDown", "shutdownRejected"}
  /\ DaemonStep([daemon EXCEPT
                   !.server = "none",
                   !.timer = @ \/ restartOnExit(code),
                   !.exits = Append(@, [code |-> code, restart |-> restartOnExit(code)])])

\* the restart timer (5 s, after any 1 s wait has ended): startServer()
RestartTimerFires ==
  /\ daemon.timer
  /\ daemon.waiting = "none"
  /\ daemon.pc \in {"supervising", "shutdownRejected"}
  /\ daemon.spawns < MaxSpawns
  /\ DaemonStep([daemon EXCEPT !.timer = FALSE, !.server = "running",
                               !.spawns = @ + 1, !.waiting = "timer"])

\* shutdown(), on SIGTERM or SIGINT: with a child, kill it and wait 2 s;
\* without one, remove the PID file and exit
ShutdownBegins ==
  /\ daemon.pc = "supervising"
  /\ DaemonStep(
       IF daemon.server = "running"
         THEN [daemon EXCEPT !.pc = "shuttingDown"]
         ELSE [daemon EXCEPT !.pc = "exited0", !.pidFile = "absent", !.timer = FALSE])

\* the 2 s wait of shutdown() ends.  If the child has exited, serverProcess is
\* null and reading its `killed` throws: shutdown() rejects, and the runtime
\* either only warns or raises uncaughtException, whose handler runs shutdown()
\* again, now without a child
ShutdownWaitEnds(raises) ==
  /\ daemon.pc = "shuttingDown"
  /\ DaemonStep(
       IF daemon.server = "running" \/ raises
         THEN [daemon EXCEPT !.pc = "exited0", !.pidFile = "absent", !.timer = FALSE]
         ELSE [daemon EXCEPT !.pc = "shutdownRejected"])


\* ------------------------------------------------------ WargServer.stop()
\* stop(), from the manager step s of its `await this.browserManager.close()`
\* on: suspended with close(); or close() has returned, every registered socket
\* gets close() and the listener server.close(); or close() has thrown and
\* stop() rejects there
StopRun(s) ==
  /\ browser' = s.m.browser
  /\ page' = s.m.page
  /\ isInitializing' = s.m.isInitializing
  /\ IF s.pc # "ret"
       THEN /\ srv' = [srv EXCEPT !.pc = s.pc, !.h = s.h]
            /\ readyState' = readyState
       ELSE IF s.out = "ok"
         THEN /\ srv' = [pc |-> "draining", h |-> Null, listening |-> FALSE]
              /\ readyState' = [c \in Clients |->
                                  IF c \in connectedClients /\ readyState[c] = "OPEN"
                                    THEN "CLOSED" ELSE readyState[c]]
         ELSE /\ srv' = [srv EXCEPT !.pc = "rejected", !.h = Null]
              /\ readyState' = readyState
  /\ ev' = <<>>
  /\ UNCHANGED <<connectedClients, inbox, tasks, nReq, client, daemon>>

\* server.stop() is called (SIGTERM or SIGINT of main)
StopCalled ==
  /\ srv.pc = "idle"
  /\ StopRun(close_enter(Mgr))
  /\ UNCHANGED <<closedB, closedP>>

StopPageCloseSettles(ok) ==
  /\ srv.pc = "pageClose"
  /\ closedP' = IF ok THEN closedP \cup {srv.h} ELSE closedP
  /\ StopRun(close_afterPageClose(Mgr, ok))
  /\ UNCHANGED closedB

StopBrowserCloseSettles(ok) ==
  /\ srv.pc = "browserClose"
  /\ closedB' = IF ok THEN closedB \cup {srv.h} ELSE closedB
  /\ StopRun(close_afterBrowserClose(Mgr, ok))
  /\ UNCHANGED closedP

\* the callback of server.close(): every connection has ended
ListenerDrained ==
  /\ srv.pc = "draining"
  /\ \A c \in Clients : readyState[c] # "OPEN" /\ c \notin connectedClients
  /\ srv' = [srv EXCEPT !.pc = "resolved"]
  /\ ev' = <<>>
  /\ UNCHANGED <<browser, page, isInitializing, connectedClients, readyState, inbox,
                 tasks, nReq, closedB, closedP, client, daemon>>

\* ------------------------------------------------------------ specification
Init ==
  /\ browser = Null
  /\ page = Null
  /\ isInitializing = FALSE
  /\ connectedClients = {}
  /\ readyState = [c \in Clients |-> "NONE"]
  /\ inbox = [c \in Clients |-> <<>>]
  /\ tasks = [t \in Reqs |-> IdleTask]
  /\ nReq = 0
  /\ closedB = {}
  /\ closedP = {}
  /\ ev = <<>>
  /\ srv = [pc |-> "idle", h |-> Null, listening |-> TRUE]
  /\ client = NewClient
  /\ daemon = NewDaemon

Next ==
  \/ \E c \in Clients, kind \in WsKinds, cmd \in SrvCommandInputs, id \in IdInputs :
       WsMessage(c, kind, cmd, id)
  \/ \E kind \in HttpKinds, cmd \in SrvCommandInputs : HttpRequest(kind, cmd, MaxSrvReq)
  \/ \E t \in Reqs, ok \in BOOLEAN : LaunchSettles(t, ok)
  \/ \E t \in Reqs, ok \in BOOLEAN : NewPageSettles(t, ok)
  \/ \E t \in Reqs, ok \in BOOLEAN : SetViewportSettles(t, ok)
  \/ \E t \in Reqs, ok \in BOOLEAN : PageCloseSettles(t, ok)
  \/ \E t \in Reqs, ok \in BOOLEAN : BrowserCloseSettles(t, ok)
  \/ \E t \in Reqs, ok \in BOOLEAN : CommandSettles(t, ok)
  \/ \E t \in Reqs, ok \in BOOLEAN : TitleSettles(t, ok)
  \/ \E c \in Clients : Connect(c)
  \/ \E c \in Clients : Disconnect(c)
  \/ \E c \in Clients : OnClose(c)

\* the server: observers, both transports, the session manager and the driver
Spec == Init /\ [][Next]_vars

\* the session manager under concurrent lifecycle and command calls, reached
\* through the HTTP routes, with no observer connected
NextMgr ==
  \/ \E kind \in HttpKinds, cmd \in CommandInputs : HttpRequest(kind, cmd, MaxReq)
  \/ \E t \in Reqs, ok \in BOOLEAN : LaunchSettles(t, ok)
  \/ \E t \in Reqs, ok \in BOOLEAN : NewPageSettles(t, ok)
  \/ \E t \in Reqs, ok \in BOOLEAN : SetViewportSettles(t, ok)
  \/ \E t \in Reqs, ok \in BOOLEAN : PageCloseSettles(t, ok)
  \/ \E t \in Reqs, ok \in BOOLEAN : BrowserCloseSettles(t, ok)
  \/ \E t \in Reqs, ok \in BOOLEAN : CommandSettles(t, ok)

SpecMgr == Init /\ [][NextMgr]_vars

\* start requests received in the shutdown specification SpecStop
MaxStopReq == 1

\* the server being shut down: observers come and go, a start may be in flight,
\* and stop() is called once
NextStop ==
  \/ HttpRequest("http_start", NoCmd, MaxStopReq)
  \/ \E t \in Reqs, ok \in BOOLEAN : LaunchSettles(t, ok)
  \/ \E t \in Reqs, ok \in BOOLEAN : NewPageSettles(t, ok)
  \/ \E t \in Reqs, ok \in BOOLEAN : SetViewportSettles(t, ok)
  \/ \E c \in Clients : Connect(c)
  \/ \E c \in Clients : Disconnect(c)
  \/ \E c \in Clients : OnClose(c)
  \/ StopCalled
  \/ \E ok \in BOOLEAN : StopPageCloseSettles(ok)
  \/ \E ok \in BOOLEAN : StopBrowserCloseSettles(ok)
  \/ ListenerDrained

SpecStop == Init /\ [][NextStop]_vars

\* one web page's client over its lifetime
NextClient ==
  \/ ClientOpens
  \/ ClientCloses
  \/ TimerFires

SpecClient == Init /\ [][NextClient]_vars

\* one daemon process from start() to its exit
NextDaemon ==
  \/ \E f \in PidFiles, writeOk \in BOOLEAN : DaemonStart(f, writeOk)
  \/ \E raises \in BOOLEAN : StartupWaitEnds(raises)
  \/ \E code \in ExitCodes : ServerExits(code)
  \/ RestartTimerFires
  \/ ShutdownBegins
  \/ \E raises \in BOOLEAN : ShutdownWaitEnds(raises)

SpecDaemon == Init /\ [][NextDaemon]_vars

\* the driver settles every operation it was asked for: each awaited promise is
\* eventually fulfilled or rejected
DriverSettles ==
  \A t \in Reqs :
    /\ WF_vars(\E ok \in BOOLEAN : LaunchSettles(t, ok))
    /\ WF_vars(\E ok \in BOOLEAN : NewPageSettles(t, ok))
    /\ WF_vars(\E ok \in BOOLEAN : SetViewportSettles(t, ok))
    /\ WF_vars(\E ok \in BOOLEAN : PageCloseSettles(t, ok))
    /\ WF_vars(\E ok \in BOOLEAN : BrowserCloseSettles(t, ok))
    /\ WF_vars(\E ok \in BOOLEAN : CommandSettles(t, ok))

\* the session manager with a driver that settles every operation
SpecMgrLive == Init /\ [][NextMgr]_vars /\ DriverSettles

\* ================================================================== claims
Count(seq, P(_)) == Cardinality({i \in DOMAIN seq : P(seq[i])})

Uninit(m) == m.browser = Null /\ m.page = Null

\* the initialize() calls another task has suspended at a driver call
InitSuspendedBeside(t) == {u \in Reqs \ {t} : tasks[u].pc \in InitPcs}

\* C1: at most one driver launch is in flight at any time, and an initialize()
\* that arrives while another initialize() is suspended in launch, newPage or
\* setViewport returns at once without invoking launch.
C1_SingleFlightLaunch ==
  /\ Cardinality({t \in Reqs : tasks[t].pc = "launch"}) <= 1
  /\ Cardinality({t \in Reqs : tasks[t].pc \in InitPcs}) <= 1
  /\ \A i \in DOMAIN ev :
       (ev[i].fn = "initialize" /\ ev[i].entered /\ InitSuspendedBeside(ev[i].t) # {})
         => (ev[i].ret = "ok" /\ ev[i].call = "none")

C1_Witness ==
  \E i \in DOMAIN ev :
    /\ ev[i].fn = "initialize" /\ ev[i].entered
    /\ InitSuspendedBeside(ev[i].t) # {}
    /\ ev[i].ret = "ok"

\* C2: concurrent initialize() calls share one attempt and one outcome: a caller
\* that found an initialize() in flight is not told success when the caller that
\* ran that attempt is told failure.
C2_CallersShareOutcome ==
  \A t \in Reqs :
    LET u == tasks[t].joined
    IN (tasks[t].pc = "done" /\ u # Null /\ tasks[u].pc = "done")
         => tasks[t].out = tasks[u].out

\* C3: executeCommand entered while isInitialized() is false returns the
\* NotReady result and invokes no page operation of the driver.
C3_NotReadyRejected ==
  \A i \in DOMAIN ev :
    (ev[i].fn = "executeCommand" /\ ev[i].entered /\ ~isInitializedOf(ev[i].pre))
      => (ev[i].ret = "result" /\ ev[i].result = NotReadyResult /\ ev[i].call = "none")

\* C4: a close() that ends because a release call failed still leaves the
\* session Uninitialized, with neither handle retained.
C4_BestEffortClose ==
  \A i \in DOMAIN ev :
    (ev[i].fn = "close" /\ ev[i].ret = "throw") => Uninit(ev[i].post)

\* C5: when a step of initialize() fails, both handles are null and the flag is
\* clear when it ends, the caller gets the error, and an initialize() called
\* next starts a new launch.
C5_InitFailureResets ==
  \A i \in DOMAIN ev :
    (ev[i].fn = "initialize" /\ ev[i].ret = "throw")
      => /\ Uninit(ev[i].post) /\ ~ev[i].post.isInitializing
         /\ tasks[ev[i].t].pc = "done" /\ tasks[ev[i].t].out = "throw"
         /\ initialize_enter(ev[i].post, ev[i].t).call = "launch"

\* an initialize() failed after its launch had stored a browser handle
C5_Witness ==
  \E i \in DOMAIN ev :
    /\ ev[i].fn = "initialize" /\ ev[i].ret = "throw"
    /\ ev[i].pre.browser # Null /\ ev[i].pre.isInitializing
    /\ browser = Null /\ page = Null /\ ~isInitializing

\* C6: close() entered with both handles null invokes neither page close nor
\* browser close, succeeds and leaves the manager as it was.
C6_CloseIdempotent ==
  \A i \in DOMAIN ev :
    (ev[i].fn = "close" /\ ev[i].entered /\ Uninit(ev[i].pre))
      => (ev[i].call = "none" /\ ev[i].ret = "ok" /\ ev[i].post = ev[i].pre)

\* a close() was called after an earlier close() had torn the session down
C6_Witness ==
  \E i \in DOMAIN ev :
    /\ ev[i].fn = "close" /\ ev[i].entered /\ Uninit(ev[i].pre) /\ ev[i].ret = "ok"
    /\ closedB # {}

\* C7: initialize() entered when isInitialized() holds invokes no launch, does
\* not throw and leaves browser, page and the flag as they were.
C7_InitWhenReadyNoOp ==
  \A i \in DOMAIN ev :
    (ev[i].fn = "initialize" /\ ev[i].entered /\ isInitializedOf(ev[i].pre))
      => (ev[i].call = "none" /\ ev[i].ret = "ok" /\ ev[i].post = ev[i].pre)

C7_Witness ==
  \E i \in DOMAIN ev :
    /\ ev[i].fn = "initialize" /\ ev[i].entered
    /\ isInitializedOf(ev[i].pre) /\ ~ev[i].pre.isInitializing
    /\ ev[i].ret = "ok"

\* C8: in every state a caller can observe, the browser handle is non-null if
\* and only if isInitialized() is true.
C8_HandleIffReady == (browser # Null) <=> isInitialized

LifecycleEdges ==
  { <<"Uninitialized", "Initializing">>, <<"Initializing", "Ready">>,
    <<"Ready", "Closing">>, <<"Closing", "Uninitialized">>,
    <<"Initializing", "Uninitialized">> }

\* C9: every change of the session state made by a manager call follows
\* Uninitialized -> Initializing -> Ready -> Closing -> Uninitialized, or
\* Initializing -> Uninitialized on a failed launch.
C9_LifecycleOnly ==
  \A i \in DOMAIN ev :
    ev[i].st0 = ev[i].st1 \/ <<ev[i].st0, ev[i].st1>> \in LifecycleEdges

\* C10: for every WebSocket 'command' message of an observer A that is still
\* open when the handler answers, A gets exactly one direct message, every other
\* registered open observer gets exactly one command_executed notification, and
\* A gets no notification.
C10_BroadcastExclusion ==
  \A t \in Reqs :
    (tasks[t].kind = "ws_command" /\ tasks[t].pc = "done" /\ tasks[t].ws \in tasks[t].live)
      => LET a == tasks[t].ws
             Direct(m) == m.req = t /\ m.direct
             Notice(m) == m.req = t /\ ~m.direct /\ m.type = "command_executed"
         IN /\ Count(inbox[a], Direct) = 1
            /\ Count(inbox[a], Notice) = 0
            /\ \A c \in tasks[t].live \ {a} : Count(inbox[c], Notice) = 1

\* messages of request t in an inbox: its direct responses, and its
\* notifications of a given type
DirectOf(t, m) == m.req = t /\ m.direct
NoticeOf(t, type, m) == m.req = t /\ ~m.direct /\ m.type = type

\* C11: after a WebSocket browser_start that succeeds, every other registered
\* open observer has exactly one browser_started notification of it and no
\* direct response, and the originator has the direct browser_started
\* response only.
C11_StartNotifiesOthers ==
  \A t \in Reqs :
    (tasks[t].kind = "ws_start" /\ tasks[t].pc = "done" /\ tasks[t].out = "ok")
      => LET a == tasks[t].ws
             Direct(m) == DirectOf(t, m)
             Notice(m) == NoticeOf(t, "browser_started", m)
             Other(m) == m.req = t /\ ~(m.direct /\ m.type = "browser_started")
         IN /\ \A c \in tasks[t].live \ {a} :
                 Count(inbox[c], Notice) = 1 /\ Count(inbox[c], Direct) = 0
            /\ Count(inbox[a], Other) = 0
            /\ a \in tasks[t].live => Count(inbox[a], Direct) = 1

\* two observers were open when a browser_start of one of them succeeded
C11_Witness ==
  \E t \in Reqs, c \in Clients :
    /\ tasks[t].kind = "ws_start" /\ tasks[t].pc = "done" /\ tasks[t].out = "ok"
    /\ c # tasks[t].ws /\ {c, tasks[t].ws} \subseteq tasks[t].live
    /\ \E i \in DOMAIN inbox[c] : NoticeOf(t, "browser_started", inbox[c][i])

\* an envelope with a type outside the fixed set (the envelope itself present)
UnknownKind(cmd) == cmd # NoCmd /\ cmd.type \notin CommandTypes

MissingPayload(cmd) == cmd # NoCmd /\ cmd.type \in NeedsData /\ ~cmd.hasData

\* C13: when the page operation of a command is rejected, or the payload field
\* it needs is missing, executeCommand returns a failed result instead of
\* throwing and leaves browser, page and the flag as they were, so that on a
\* Ready session a later command still reaches the driver.
C13_DriverFailureContained ==
  \A i \in DOMAIN ev :
    (/\ ev[i].fn = "executeCommand"
     /\ \/ ev[i].settled = "rejected"
        \/ ev[i].entered /\ ev[i].pre.page # Null /\ MissingPayload(tasks[ev[i].t].cmd))
      => /\ ev[i].ret = "result"
         /\ ~ev[i].result.success /\ ev[i].result.error # "none"
         /\ ev[i].post = ev[i].pre
         /\ isInitializedOf(ev[i].pre) =>
              executeCommand_enter(ev[i].post, [type |-> "click", hasData |-> TRUE]).call
                = "click"

\* a page operation was rejected on a Ready session
C13_Witness ==
  \E i \in DOMAIN ev :
    /\ ev[i].fn = "executeCommand" /\ ev[i].settled = "rejected"
    /\ isInitializedOf(ev[i].pre) /\ ~ev[i].pre.isInitializing
    /\ ~ev[i].result.success /\ isInitialized

WellFormed(cmd) == cmd # NoCmd /\ cmd.type \in CommandTypes

\* C14: a malformed envelope (absent, or of a kind outside the fixed set) never
\* reaches executeCommand, and its request ends with a failed result.
C14_MalformedRejectedFirst ==
  /\ \A i \in DOMAIN ev :
       (ev[i].fn = "executeCommand" /\ ev[i].entered) => WellFormed(tasks[ev[i].t].cmd)
  /\ \A t \in Reqs :
       (/\ tasks[t].kind \in {"ws_command", "http_command"}
        /\ tasks[t].pc = "done" /\ ~WellFormed(tasks[t].cmd))
         => (tasks[t].out = "result" /\ ~tasks[t].result.success)

\* the message types handleWebSocketMessage could read an id from
WsParsedKinds == WsKinds \ {"ws_invalid"}

\* C15: every direct response to a parsed WebSocket message sits in the inbox of
\* its sender and carries the id of that message (absent when it was absent);
\* a message of unknown type gets exactly one response, an error with that id,
\* no other observer gets anything for it, and the manager is not touched.
C15_RepliesEchoId ==
  /\ \A c \in Clients : \A i \in DOMAIN inbox[c] :
       LET m == inbox[c][i]
       IN m.direct => /\ m.req \in Reqs
                      /\ tasks[m.req].ws = c
                      /\ tasks[m.req].kind \in WsParsedKinds => m.id = tasks[m.req].id
  /\ \A t \in Reqs :
       (tasks[t].kind = "ws_unknown" /\ tasks[t].pc = "done")
         => LET a == tasks[t].ws
                ErrorWithId(m) == DirectOf(t, m) /\ m.type = "error" /\ m.id = tasks[t].id
                OfReq(m) == m.req = t
            IN /\ a \in tasks[t].live => Count(inbox[a], ErrorWithId) = 1
               /\ Count(inbox[a], OfReq) <= 1
               /\ \A c \in Clients \ {a} : Count(inbox[c], OfReq) = 0
  /\ \A i \in DOMAIN ev :
       (ev[i].fn = "none" /\ tasks[ev[i].t].kind = "ws_unknown")
         => /\ ev[i].post = ev[i].pre /\ ev[i].st1 = ev[i].st0
            /\ ev[i].call = "none"

\* an unknown type carrying an id was answered while a second observer was open,
\* and a command carrying an id was answered
C15_Witness ==
  \E t \in Reqs, u \in Reqs :
    /\ tasks[t].kind = "ws_unknown" /\ tasks[t].pc = "done" /\ tasks[t].id # NoId
    /\ tasks[t].live = Clients
    /\ \E i \in DOMAIN inbox[tasks[t].ws] : DirectOf(t, inbox[tasks[t].ws][i])
    /\ tasks[u].kind = "ws_command" /\ tasks[u].pc = "done" /\ tasks[u].id # NoId
    /\ \E i \in DOMAIN inbox[tasks[u].ws] :
         DirectOf(u, inbox[tasks[u].ws][i]) /\ inbox[tasks[u].ws][i].type = "command_result"

\* C16: the connection handler leaves the observer in the registry with the
\* status snapshot as its only message, whose initialized field is
\* isInitialized() and whose connectedClients field is the size of the registry
\* with the new observer in it; the first message of every observer is such a
\* snapshot.
C16_SnapshotOnConnect ==
  /\ \A i \in DOMAIN ev :
       ev[i].fn = "connect"
         => LET c == ev[i].t
            IN /\ c \in connectedClients
               /\ inbox[c] = <<StatusSnapshot(connectedClients)>>
               /\ inbox[c][1].initialized = isInitializedOf(ev[i].pre)
               /\ inbox[c][1].clients = Cardinality(connectedClients)
               /\ inbox[c][1].clients >= 1
  /\ \A c \in Clients :
       inbox[c] # <<>> => /\ inbox[c][1].type = "status"
                          /\ ~inbox[c][1].direct
                          /\ inbox[c][1].clients \in 1..NumClients

\* a second observer connected to a started browser
C16_Witness ==
  \E i \in DOMAIN ev :
    /\ ev[i].fn = "connect"
    /\ inbox[ev[i].t][1].initialized
    /\ inbox[ev[i].t][1].clients = 2

\* C17: a step changes the registry only by adding an observer that connects or
\* by removing one whose socket has closed, and these steps touch no request;
\* an observer whose socket has closed, or that is not registered, gets no
\* further message, whatever is sent or broadcast.
C17_RegistryOnlyBySignals ==
  [][/\ connectedClients' # connectedClients
          => /\ tasks' = tasks
             /\ \E c \in Clients :
                  \/ /\ readyState[c] = "NONE" /\ readyState'[c] = "OPEN"
                     /\ connectedClients' = connectedClients \cup {c}
                  \/ /\ readyState[c] = "CLOSED" /\ inbox' = inbox
                     /\ connectedClients' = connectedClients \ {c}
     /\ \A c \in Clients :
          (readyState[c] = "CLOSED" \/ (c \notin connectedClients /\ c \notin connectedClients'))
            => inbox'[c] = inbox[c]]_vars

\* a lifecycle request was broadcast after its sender had closed and left the
\* registry, and the sender got nothing of it
C17_Witness ==
  \E t \in Reqs, d \in Clients :
    /\ tasks[t].kind \in {"ws_start", "ws_stop"} /\ tasks[t].pc = "done"
    /\ tasks[t].ws \notin connectedClients /\ tasks[t].ws \notin tasks[t].live
    /\ d \in tasks[t].live
    /\ \E i \in DOMAIN inbox[d] : inbox[d][i].req = t /\ ~inbox[d][i].direct
    /\ \A i \in DOMAIN inbox[tasks[t].ws] : inbox[tasks[t].ws][i].req # t

\* the finished requests whose handler reached its broadcastToClients call
Broadcasts(t) ==
  /\ tasks[t].pc = "done"
  /\ \/ tasks[t].kind \in {"ws_start", "ws_stop", "http_start", "http_stop", "http_restart"}
        /\ tasks[t].out = "ok"
     \/ tasks[t].kind \in {"ws_command", "http_command"}
        /\ tasks[t].out = "result" /\ tasks[t].cmd # NoCmd

AnyNotice(t, m) == m.req = t /\ ~m.direct

\* C18: the broadcast of a request puts exactly one notification in the inbox
\* of every observer that was registered and open when it was made, the
\* excluded sender apart, and none in any other inbox.
C18_BroadcastReachesLive ==
  \A t \in Reqs :
    Broadcasts(t)
      => \A c \in Clients :
           LET Notice(m) == AnyNotice(t, m)
           IN Count(inbox[c], Notice) =
                (IF c \in tasks[t].live \ {tasks[t].ws} THEN 1 ELSE 0)

\* t is the only request that can start the browser, and an observer whose
\* status snapshot already says initialized (so it connected while t awaited
\* setViewport) has t's notification
C18_Witness ==
  \E t \in Reqs, c \in Clients :
    /\ tasks[t].kind = "ws_start" /\ Broadcasts(t) /\ tasks[t].joined = Null
    /\ \A u \in Reqs \ {t} : tasks[u].kind \notin {"ws_start", "http_start", "http_restart"}
    /\ c # tasks[t].ws
    /\ Len(inbox[c]) >= 2
    /\ inbox[c][1].type = "status" /\ inbox[c][1].initialized
    /\ \E i \in DOMAIN inbox[c] : AnyNotice(t, inbox[c][i])

\* C19: when the sender of a WebSocket request is no longer open as the handler
\* answers, the handler still finishes, nothing of the request reaches the
\* sender, and the notification of the request is in the inbox of every other
\* registered open observer.
C19_ReplyToClosedDropped ==
  \A t \in Reqs :
    (tasks[t].kind \in WsKinds /\ tasks[t].pc = "done" /\ tasks[t].ws \notin tasks[t].live)
      => LET OfReq(m) == m.req = t
             Notice(m) == AnyNotice(t, m)
         IN /\ Count(inbox[tasks[t].ws], OfReq) = 0
            /\ tasks[t].out # "none"
            /\ Broadcasts(t) => \A c \in tasks[t].live : Count(inbox[c], Notice) = 1

\* the sender of a command closed while the page operation was awaited, and the
\* other observer got command_executed
C19_Witness ==
  \E t \in Reqs, d \in Clients :
    /\ tasks[t].kind = "ws_command" /\ Broadcasts(t)
    /\ readyState[tasks[t].ws] = "CLOSED" /\ tasks[t].ws \notin tasks[t].live
    /\ d \in tasks[t].live
    /\ \E i \in DOMAIN inbox[d] : NoticeOf(t, "command_executed", inbox[d][i])

\* every envelope executeCommand can be handed: each type of the switch and one
\* outside it, with and without the payload, and no envelope at all
AllCommands ==
  {NoCmd} \cup [type : CommandTypes \cup {"teleport"}, hasData : BOOLEAN]

\* success gates data and error
ResultShape(r) ==
  /\ r.success => r.error = "none"
  /\ ~r.success => (r.error # "none" /\ r.data = "none")

\* C20: every result executeCommand returns has no error when success is true,
\* and an error and no data when success is false: for the calls made, and for
\* every envelope handed to the manager as it now is.
C20_ResultShape ==
  /\ \A i \in DOMAIN ev :
       (ev[i].fn = "executeCommand" /\ ev[i].ret = "result") => ResultShape(ev[i].result)
  /\ \A cmd \in AllCommands :
       LET s == executeCommand_enter(Mgr, cmd)
       IN /\ s.out = "result" => ResultShape(s.result)
          /\ s.pc = "cmdOp" =>
               \A ok \in BOOLEAN :
                 LET r == executeCommand_afterOp(s.m, cmd, ok)
                 IN r.out = "result" => ResultShape(r.result)

\* a page operation was rejected and the call returned a failed result
C20_Witness ==
  \E i \in DOMAIN ev :
    /\ ev[i].fn = "executeCommand" /\ ev[i].settled = "rejected"
    /\ ev[i].ret = "result" /\ ~ev[i].result.success /\ ev[i].result.data = "none"

\* C21: when the page operation of a navigate, reload, back or forward is
\* fulfilled and the call returns success, data.url is the URL the driver
\* reports, after the operation has settled, for the page it ran on.
C21_UrlOfNavigatedPage ==
  \A i \in DOMAIN ev :
    (/\ ev[i].fn = "executeCommand" /\ ev[i].settled = "fulfilled"
     /\ tasks[ev[i].t].cmd.type \in ReturnsUrl
     /\ ev[i].ret = "result" /\ ev[i].result.success)
      => (ev[i].result.data = "url" /\ ev[i].result.urlOf = ev[i].awaited)

\* C22: getPageInfo entered in a state other than Ready returns null without a
\* driver call, a rejected page.title() makes it return null, and no status
\* message carries a pageInfo together with initialized = false.
C22_PageInfoOnlyWhenReady ==
  /\ \A i \in DOMAIN ev :
       (ev[i].fn = "getPageInfo" /\ ev[i].entered /\ ev[i].st0 # "Ready")
         => (ev[i].ret = "null" /\ ev[i].call = "none")
  /\ \A i \in DOMAIN ev :
       (ev[i].fn = "getPageInfo" /\ ev[i].settled = "rejected") => ev[i].ret = "null"
  /\ \A c \in Clients : \A k \in DOMAIN inbox[c] :
       (inbox[c][k].type = "status" /\ inbox[c][k].pageInfo) => inbox[c][k].initialized

\* C23: every WebSocket command for which executeCommand returned a result,
\* successful or failed, is announced with exactly one command_executed to every
\* other registered open observer.
C23_CommandAlwaysBroadcast ==
  \A t \in Reqs :
    (tasks[t].kind = "ws_command" /\ tasks[t].pc = "done" /\ tasks[t].out = "result")
      => \A c \in tasks[t].live \ {tasks[t].ws} :
           LET Notice(m) == NoticeOf(t, "command_executed", m)
           IN Count(inbox[c], Notice) = 1

\* C24: a rejected driver call makes initialize() and close() throw and ends the
\* handler; for a WebSocket browser_start or browser_stop whose call threw, the
\* sender (if still open) has exactly one message of the request, an error with
\* the id of the request, and no other observer has any message of it.
C24_LifecycleFailureToRequester ==
  /\ \A i \in DOMAIN ev :
       (ev[i].fn \in {"initialize", "close"} /\ ev[i].settled = "rejected")
         => (ev[i].ret = "throw" /\ tasks[ev[i].t].pc = "done"
             /\ tasks[ev[i].t].out = "throw")
  /\ \A t \in Reqs :
       (tasks[t].kind \in {"ws_start", "ws_stop"} /\ tasks[t].pc = "done"
        /\ tasks[t].out = "throw")
         => LET a == tasks[t].ws
                ErrorWithId(m) == DirectOf(t, m) /\ m.type = "error" /\ m.id = tasks[t].id
                OfReq(m) == m.req = t
            IN /\ a \in tasks[t].live => Count(inbox[a], ErrorWithId) = 1
               /\ Count(inbox[a], OfReq) <= 1
               /\ \A c \in Clients \ {a} : Count(inbox[c], OfReq) = 0

\* a browser_start failed and was answered with an error while a second
\* observer was open, and a later browser_start launched and succeeded
C24_Witness ==
  \E t \in Reqs, u \in Reqs :
    /\ t < u
    /\ tasks[t].kind = "ws_start" /\ tasks[t].pc = "done" /\ tasks[t].out = "throw"
    /\ tasks[t].live = Clients
    /\ \E k \in DOMAIN inbox[tasks[t].ws] :
         DirectOf(t, inbox[tasks[t].ws][k]) /\ inbox[tasks[t].ws][k].type = "error"
    /\ tasks[u].kind = "ws_start" /\ tasks[u].pc = "done" /\ tasks[u].out = "ok"
    /\ tasks[u].joined = Null /\ isInitialized

\* C25: a close() that finds a page calls page.close() on it first; whenever a
\* close() calls browser.close(), this.page is null, and if the call had awaited
\* page.close(), that close was fulfilled.
C25_PageBeforeBrowser ==
  \A i \in DOMAIN ev :
    ev[i].fn = "close"
      => /\ (ev[i].entered /\ ev[i].pre.page # Null)
              => (ev[i].call = "page.close" /\ ev[i].h = ev[i].pre.page)
         /\ ev[i].call = "browser.close"
              => /\ ev[i].post.page = Null
                 /\ ev[i].h = ev[i].post.browser
                 /\ ~ev[i].entered
                      => (ev[i].settled = "fulfilled" /\ ev[i].awaited \in closedP)

\* a close() that had awaited page.close() went on to browser.close()
C25_Witness ==
  \E i \in DOMAIN ev :
    /\ ev[i].fn = "close" /\ ~ev[i].entered /\ ev[i].call = "browser.close"
    /\ ev[i].pre.page # Null /\ ev[i].post.page = Null

\* C26: no two close() calls await the same release call on the same handle,
\* and no close() awaits the release of a browser or page that an initialize()
\* still suspended has created.
C26_NoRedundantLifecycleOp ==
  \A t \in Reqs, u \in Reqs :
    (t # u /\ tasks[t].pc \in ClosePcs)
      => /\ tasks[u].pc = tasks[t].pc => tasks[u].h # tasks[t].h
         /\ tasks[u].pc \in InitPcs => tasks[t].h # u

\* C27: a held page implies a held browser.
C27_PageImpliesBrowser == page # Null => browser # Null

\* the requests whose handler calls close()
CloseKinds == {"http_stop", "http_restart", "ws_stop"}

\* C28: initialize() never drops a browser handle it holds unless
\* browser.close() has been invoked on that browser: the close has completed,
\* is awaited, or at least a request that calls close() has arrived.
C28_NoOrphanBrowser ==
  \A i \in DOMAIN ev :
    (ev[i].fn = "initialize" /\ ev[i].pre.browser # Null /\ ev[i].post.browser = Null)
      => \/ ev[i].pre.browser \in closedB
         \/ \E u \in Reqs : tasks[u].kind \in CloseKinds

\* C29: when a start or restart handler ends with success, and so sends
\* browser_started or browser_restarted, isInitialized() is true; when a stop
\* handler ends with success, and so sends browser_stopped, it is false.
C29_LifecycleMessagesTruthful ==
  \A i \in DOMAIN ev :
    (/\ ev[i].fn \in {"initialize", "close"} /\ i = Len(ev)
     /\ tasks[ev[i].t].pc = "done" /\ tasks[ev[i].t].out = "ok")
      => IF tasks[ev[i].t].kind \in {"http_stop", "ws_stop"}
           THEN ~isInitialized ELSE isInitialized

\* the initialize() calls suspended at a driver call
InitSuspended == {t \in Reqs : tasks[t].pc \in InitPcs}

\* C30: isInitializing is true exactly while one initialize() call is suspended
\* between its guards and its end, and, with a driver that settles every
\* operation, a set flag is eventually cleared and every suspended initialize()
\* eventually returns.
C30_FlagTracksInitialize ==
  /\ [](Cardinality(InitSuspended) <= 1)
  /\ [](isInitializing <=> InitSuspended # {})
  /\ isInitializing ~> ~isInitializing
  /\ \A t \in Reqs : (tasks[t].pc \in InitPcs) ~> (tasks[t].pc = "done")

\* a failed initialize() cleared the flag, and a later one set and cleared it
\* on success
C30_Witness ==
  /\ \E t \in Reqs : tasks[t].kind = "http_start" /\ tasks[t].pc = "done"
                     /\ tasks[t].out = "throw"
  /\ \E i \in DOMAIN ev :
       /\ ev[i].fn = "initialize" /\ ev[i].settled = "fulfilled" /\ ev[i].ret = "ok"
       /\ ev[i].pre.isInitializing /\ ~ev[i].post.isInitializing
  /\ ~isInitializing

\* C31: an HTTP route whose lifecycle call succeeded, or whose command returned
\* a result (successful or failed), writes its response and then puts exactly
\* one notification of its type in the inbox of every registered open observer,
\* none excluded; a route whose call threw answers 500 and no observer gets
\* anything of it.
C31_HttpNotifiesAll ==
  \A t \in Reqs :
    (tasks[t].kind \in HttpKinds /\ tasks[t].pc = "done")
      => LET ok == IF tasks[t].kind = "http_command" THEN tasks[t].out = "result"
                                                      ELSE tasks[t].out = "ok"
             Notice(m) == NoticeOf(t, HttpNotice(tasks[t].kind), m)
             OfReq(m) == m.req = t
         IN /\ HttpOutputs(tasks[t].kind, tasks[t].out) =
                 (IF ok THEN <<"res.json", "broadcast">> ELSE <<"res.status(500)">>)
            /\ \A c \in Clients :
                 /\ Count(inbox[c], OfReq) = (IF ok /\ c \in tasks[t].live THEN 1 ELSE 0)
                 /\ Count(inbox[c], Notice) = Count(inbox[c], OfReq)

\* with two observers open, a start failed and reached nobody, and a command
\* that returned a failed result reached both
C31_Witness ==
  \E t \in Reqs, u \in Reqs :
    /\ tasks[t].kind = "http_start" /\ tasks[t].pc = "done" /\ tasks[t].out = "throw"
    /\ tasks[t].live = Clients
    /\ tasks[u].kind = "http_command" /\ tasks[u].pc = "done" /\ tasks[u].out = "result"
    /\ ~tasks[u].result.success /\ tasks[u].live = Clients
    /\ \A c \in Clients :
         \E k \in DOMAIN inbox[c] : NoticeOf(u, "command_result", inbox[c][k])

\* C32: the listener and the observers' sockets are closed by stop() only after
\* its close() of the browser has returned, and once stop() has settled, resolved
\* or rejected, no observer's socket is open and the listener is closed.
C32_StopClosesEverything ==
  /\ ~srv.listening => srv.pc \in {"draining", "resolved"}
  /\ srv.pc \in {"draining", "resolved", "rejected"}
       => (~srv.listening /\ \A c \in Clients : readyState[c] # "OPEN")

\* C33: a reconnect timer is set on a close only while reconnectAttempts < 5,
\* so at most 5 are set in a row without the socket opening in between; an open
\* socket has reconnectAttempts 0; the first delay is 1000 ms, each later one is
\* twice the one before up to the cap of 10000 ms, so the delays never decrease
\* and never exceed 10000 ms.
C33_ReconnectBounded ==
  LET d == client.delays
  IN /\ client.run <= maxReconnectAttempts
     /\ client.run = client.reconnectAttempts
     /\ client.state = "gaveUp" => client.run = maxReconnectAttempts /\ client.timer = 0
     /\ client.state = "waiting" => client.timer = d[Len(d)]
     /\ client.state = "open" => client.reconnectAttempts = 0
     /\ d # <<>> => d[1] = InitialReconnectDelay
     /\ \A i \in 1..Len(d) : d[i] <= MaxReconnectDelay
     /\ \A i \in 1..(Len(d) - 1) :
          /\ d[i] <= d[i + 1]
          /\ d[i + 1] = Min(2 * d[i], MaxReconnectDelay)
     /\ client.reconnectDelay =
          (IF d = <<>> THEN InitialReconnectDelay
                       ELSE Min(2 * d[Len(d)], MaxReconnectDelay))

\* the client has given up after 5 timers in a row, the socket had opened
\* before, and the delay has reached its cap
C33_Witness ==
  /\ client.state = "gaveUp"
  /\ Len(client.delays) > maxReconnectAttempts
  /\ client.delays[Len(client.delays)] = MaxReconnectDelay

\* C34: an exit of the server schedules a restart only if its code is neither 0
\* nor null, and a start() that found the PID of a running process in the PID
\* file has left the file as it was and has spawned no server.
C34_DaemonSupervision ==
  /\ \A i \in DOMAIN daemon.exits :
       daemon.exits[i].restart => daemon.exits[i].code \notin {0, NullCode}
  /\ (daemon.pc # "new" /\ daemon.found \in {"ownRunningPid", "foreignRunningPid"})
       => (daemon.pidFile = daemon.found /\ daemon.spawns = 0)

=============================================================================
